---- MODULE Spec2Model ----
(***************************************************************************)
(* Model of the nutrition application.                                     *)
(*                                                                         *)
(*   food/app.py                  the Streamlit script: profile sidebar,   *)
(*                                model loading, nutrient form, the        *)
(*                                calorie / health pipeline and rendering  *)
(*   food/spiders/food_scraper.py the Scrapy spider: clean_value and       *)
(*                                parse_food                               *)
(*                                                                         *)
(* Python numbers are modelled as exact rationals <<num, den>> (den > 0,   *)
(* in lowest terms); Python optional values as None == <<>> or <<v>>.      *)
(***************************************************************************)
EXTENDS Integers, Sequences, FiniteSets, TLC

\* ------------------------------------------------------------------------
\* Exact rational arithmetic

RECURSIVE GCD(_, _)
GCD(a, b) == IF b = 0 THEN a ELSE GCD(b, a % b)

Abs(n) == IF n < 0 THEN -n ELSE n

Norm(n, d) ==
    LET s == IF d < 0 THEN -1 ELSE 1
        g == GCD(Abs(n), Abs(d))
    IN  <<(s * n) \div g, (s * d) \div g>>

R(n) == <<n, 1>>
Frac(n, d) == Norm(n, d)
RAdd(a, b) == Norm(a[1] * b[2] + b[1] * a[2], a[2] * b[2])
RSub(a, b) == Norm(a[1] * b[2] - b[1] * a[2], a[2] * b[2])
RMul(a, b) == Norm(a[1] * b[1], a[2] * b[2])
RDiv(a, b) == Norm(a[1] * b[2], a[2] * b[1])
RLT(a, b) == a[1] * b[2] < b[1] * a[2]
RGT(a, b) == RLT(b, a)
RGE(a, b) == ~RLT(a, b)

\* ------------------------------------------------------------------------
\* Python optional values

None == <<>>
Val(x) == <<x>>
Get(o) == o[1]

\* ------------------------------------------------------------------------
\* food/app.py: load_models

\* An artifact on disk is "ok", "missing" or "corrupt" (joblib.load raises).
ArtifactStates == {"ok", "missing", "corrupt"}

\* load_models degrading to the classifier alone when the regressor is unusable
load_models_partial(class_file, reg_file) ==
    IF class_file # "ok"
    THEN <<None, None>>
    ELSE IF reg_file # "ok"
         THEN <<Val("model_xgb"), None>>
         ELSE <<Val("model_xgb"), Val("model_reg")>>

\* lines 16-34, the body of load_models: <<model_class, model_reg>>, None for no model
load_models(class_file, reg_file) ==
    IF class_file = "missing" \/ reg_file = "missing"
    THEN <<None, None>>
    ELSE IF class_file = "corrupt" \/ reg_file = "corrupt"
         THEN <<None, None>>
         ELSE <<Val("model_xgb"), Val("model_reg")>>

\* ------------------------------------------------------------------------
\* food/app.py: predict_calories

\* the scorer's answer passed on without the floor
PyMax0_unclamped(prediction) == prediction

\* line 46: max(0, prediction)
PyMax0(prediction) == IF RGT(prediction, R(0)) THEN prediction ELSE R(0)

\* reg_out is what model_reg.predict(data)[0] answers to the one call made:
\* [raises |-> BOOLEAN, value |-> rational].  The result holds the calls made,
\* the exception raised ("" for none) and the value returned.
predict_calories(reg_out, fat, carbs, protein, fiber) ==
    LET data == [Fat |-> fat, Protein |-> protein, Carbohydrate |-> carbs, Fiber |-> fiber]
        call == [svc |-> "regressor", method |-> "predict", data |-> data]
    IN  IF reg_out.raises
        THEN [calls |-> <<call>>, exc |-> "ScorerError", ret |-> None]
        ELSE [calls |-> <<call>>, exc |-> "", ret |-> Val(PyMax0(reg_out.value))]

\* ------------------------------------------------------------------------
\* food/app.py: analyze_health

\* override with the protein threshold made inclusive
override_inclusive(prediction, prob_healthy, prot_density, sugar_density) ==
    IF prediction = 0 /\ RGE(prot_density, Frac(15, 100)) /\ RLT(sugar_density, Frac(2, 100))
    THEN <<Val(1), Val(Frac(85, 100))>>
    ELSE <<Val(prediction), prob_healthy>>

\* lines 75-80: the hand-coded correction applied to the classifier's answer
override(prediction, prob_healthy, prot_density, sugar_density) ==
    IF prediction = 0 /\ RGT(prot_density, Frac(15, 100)) /\ RLT(sugar_density, Frac(2, 100))
    THEN <<Val(1), Val(Frac(85, 100))>>
    ELSE <<Val(prediction), prob_healthy>>

\* the probability asked for before the label
classifier_calls_swapped(data) ==
    <<[svc |-> "classifier", method |-> "predict_proba", data |-> data],
      [svc |-> "classifier", method |-> "predict", data |-> data]>>

\* lines 72-73: the two classifier calls on the feature record, in order
classifier_calls(data) ==
    <<[svc |-> "classifier", method |-> "predict", data |-> data],
      [svc |-> "classifier", method |-> "predict_proba", data |-> data]>>

\* clf_out is what the classifier answers: [raises |-> "" | "predict" |
\* "predict_proba", label |-> 0 | 1, proba |-> None | Val(rational)].
\* divisors is the set of denominators of the divisions evaluated.
analyze_health(clf_out, predicted_cals, total_mass, fat, sugar, protein, fiber, sodium, sat_fat, cholesterol, water) ==
    IF total_mass = R(0)
    THEN [calls |-> <<>>, exc |-> "", divisors |-> {}, ret |-> <<None, None>>]
    ELSE
    LET sugar_fiber_ratio == IF RGT(fiber, R(0)) THEN RDiv(sugar, fiber) ELSE R(0)
        prot_density == RDiv(protein, total_mass)
        sugar_density == RDiv(sugar, total_mass)
        data == [Calorie_Density |-> RDiv(predicted_cals, total_mass),
                 Fat_Density |-> RDiv(fat, total_mass),
                 Sugar_Density |-> RDiv(sugar, total_mass),
                 Protein_Density |-> prot_density,
                 Fiber_Density |-> RDiv(fiber, total_mass),
                 Saturated_Fat_Density |-> RDiv(sat_fat, total_mass),
                 Cholesterol_Density |-> RDiv(cholesterol, total_mass),
                 Water_Density |-> RDiv(water, total_mass),
                 Sugar_Fiber_Ratio |-> sugar_fiber_ratio,
                 Sodium_Density |-> RDiv(sodium, total_mass)]
        divisors == {total_mass} \cup (IF RGT(fiber, R(0)) THEN {fiber} ELSE {})
        c1 == classifier_calls(data)[1]
        c2 == classifier_calls(data)[2]
    IN  IF clf_out.raises = "predict"
        THEN [calls |-> <<c1>>, exc |-> "ScorerError", divisors |-> divisors,
              ret |-> <<None, None>>]
        ELSE IF clf_out.raises = "predict_proba"
        THEN [calls |-> <<c1, c2>>, exc |-> "ScorerError", divisors |-> divisors,
              ret |-> <<None, None>>]
        ELSE [calls |-> <<c1, c2>>, exc |-> "", divisors |-> divisors,
              ret |-> override(clf_out.label, clf_out.proba, prot_density, sugar_density)]

\* ------------------------------------------------------------------------
\* food/app.py: calculate_smart_protein_goal

Sedentary == "Sedentary (Office Job, No Exercise)"
LightlyActive == "Lightly Active (Exercise 1-3 days/week)"
ModeratelyActive == "Moderately Active (Exercise 3-5 days/week)"
VeryActive == "Very Active (Hard Exercise 6-7 days/week)"
Athlete == "Athlete / Muscle Building (Hypertrophy)"

multipliers ==
    (Sedentary :> Frac(8, 10)) @@ (LightlyActive :> Frac(12, 10)) @@
    (ModeratelyActive :> Frac(15, 10)) @@ (VeryActive :> Frac(17, 10)) @@
    (Athlete :> Frac(20, 10))

\* multipliers.get(activity_level, 1.2); activity_level is None or Val(string)
multiplier_of(activity_level) ==
    IF activity_level # None /\ Get(activity_level) \in DOMAIN multipliers
    THEN multipliers[Get(activity_level)]
    ELSE Frac(12, 10)

\* the adjustment starting at BMI 25, as the function's docstring has it
calculate_smart_protein_goal_docstring(weight_kg, height_cm, activity_level) ==
    LET height_m == RDiv(height_cm, R(100))
        height_m2 == RMul(height_m, height_m)
        bmi == RDiv(weight_kg, height_m2)
        ideal_weight == RMul(R(25), height_m2)
        calculation_weight ==
            IF RGT(bmi, R(25))
            THEN RAdd(ideal_weight, RMul(Frac(25, 100), RSub(weight_kg, ideal_weight)))
            ELSE weight_kg
    IN  <<RMul(calculation_weight, multiplier_of(activity_level)), bmi>>

\* lines 81-108: <<daily protein goal, bmi>>
calculate_smart_protein_goal(weight_kg, height_cm, activity_level) ==
    LET height_m == RDiv(height_cm, R(100))
        height_m2 == RMul(height_m, height_m)
        bmi == RDiv(weight_kg, height_m2)
        ideal_weight == RMul(R(25), height_m2)
        calculation_weight ==
            IF RGT(bmi, R(30))
            THEN RAdd(ideal_weight, RMul(Frac(25, 100), RSub(weight_kg, ideal_weight)))
            ELSE weight_kg
    IN  <<RMul(calculation_weight, multiplier_of(activity_level)), bmi>>

\* The caption main chooses for the sidebar from bmi; the last one comes
\* with the note "we adjusted the protein goal to match your Lean Body Mass".
bmi_caption(bmi) ==
    IF RLT(bmi, Frac(185, 10)) THEN "Underweight"
    ELSE IF RLT(bmi, R(25)) THEN "Normal"
    ELSE IF RLT(bmi, R(30)) THEN "Overweight"
    ELSE "Obese - Weight Adjusted"


\* ------------------------------------------------------------------------
\* food/spiders/food_scraper.py: clean_value

\* A text is a sequence of characters; NBSP stands for '\xa0'.
NBSP == "nbsp"
Digits == {"0", "5"}
DigitValue(c) == IF c = "5" THEN 5 ELSE 0
Whitespace == {" ", NBSP}

RECURSIVE lstrip(_)
lstrip(t) == IF t # <<>> /\ Head(t) \in Whitespace THEN lstrip(Tail(t)) ELSE t

RECURSIVE rstrip(_)
rstrip(t) == IF t # <<>> /\ t[Len(t)] \in Whitespace THEN rstrip(SubSeq(t, 1, Len(t) - 1)) ELSE t

\* str.strip()
strip(t) == rstrip(lstrip(t))

\* str.replace('\xa0', ' ')
replace_nbsp(t) == [i \in 1..Len(t) |-> IF t[i] = NBSP THEN " " ELSE t[i]]

IsNumChar(c) == c \in Digits \cup {"."}

\* re.search(r'[\d\.]+', t): the leftmost, longest run, None for no match
re_search(t) ==
    IF \E i \in 1..Len(t) : IsNumChar(t[i])
    THEN LET start == CHOOSE i \in 1..Len(t) : IsNumChar(t[i]) /\ \A j \in 1..(i - 1) : ~IsNumChar(t[j])
             stop == CHOOSE k \in start..Len(t) : (\A j \in start..k : IsNumChar(t[j])) /\ (k = Len(t) \/ ~IsNumChar(t[k + 1]))
         IN  Val(SubSeq(t, start, stop))
    ELSE None

RECURSIVE DigitsValue(_)
DigitsValue(ds) == IF ds = <<>> THEN 0 ELSE 10 * DigitsValue(SubSeq(ds, 1, Len(ds) - 1)) + DigitValue(ds[Len(ds)])

RECURSIVE Pow10(_)
Pow10(n) == IF n = 0 THEN 1 ELSE 10 * Pow10(n - 1)

\* float(m) for m over digits and dots: a number when m has at most one dot
\* and at least one digit, a ValueError otherwise
float_of(m) ==
    LET dots == {i \in 1..Len(m) : m[i] = "."}
    IN  IF Cardinality(dots) > 1 \/ Cardinality(dots) = Len(m)
        THEN [exc |-> "ValueError", ret |-> None]
        ELSE IF dots = {}
        THEN [exc |-> "", ret |-> Val(R(DigitsValue(m)))]
        ELSE LET d == CHOOSE i \in dots : TRUE
                 whole == SubSeq(m, 1, d - 1)
                 frac == SubSeq(m, d + 1, Len(m))
             IN  [exc |-> "", ret |-> Val(Frac(DigitsValue(whole) * Pow10(Len(frac)) + DigitsValue(frac), Pow10(Len(frac))))]

\* value is None or Val(text)
clean_value(value) ==
    IF value = None \/ Get(value) = <<>>
    THEN [exc |-> "", ret |-> None]
    ELSE LET v == replace_nbsp(strip(Get(value)))
             match == re_search(v)
         IN  IF match # None THEN float_of(Get(match)) ELSE [exc |-> "", ret |-> None]

\* ------------------------------------------------------------------------
\* food/spiders/food_scraper.py: parse_food

Fields == <<"Calories", "Fat", "Carbohydrate", "Protein", "Sugars", "Fiber", "Sodium", "Saturated_Fat", "Cholesterol", "Water">>

\* page[f] is what the response's xpath .get() gives for field f: None or
\* Val(text).  The dict is built field by field; a raising clean_value ends
\* the generator without an item.
parse_food(page, food_name) ==
    LET cleaned == [i \in 1..Len(Fields) |-> clean_value(page[Fields[i]])]
    IN  IF \E i \in 1..Len(Fields) : cleaned[i].exc # ""
        THEN [exc |-> "ValueError", yielded |-> None]
        ELSE [exc |-> "", yielded |-> Val([Name |-> food_name, values |-> [i \in 1..Len(Fields) |-> cleaned[i].ret]])]

\* ------------------------------------------------------------------------
\* Inputs

\* sidebar widgets: weight 30.0..200.0 step 0.5, height 100..250 step 1
Weights == {R(30), R(80)}
Heights == {R(100), R(175)}
ActivityChoices == {ModeratelyActive, Athlete}

\* form widgets, all with min_value 0.0
FatInputs == {R(0), R(10)}
CarbInputs == {R(0), R(80)}
ProteinInputs == {R(0), R(15), R(20)}
FiberInputs == {R(0), R(5)}
SugarInputs == {R(0), R(2)}
SatFatInputs == {R(0)}
SodiumInputs == {R(0), R(500)}
CholesterolInputs == {R(0), R(300)}
WaterInputs == {R(0), R(85)}

\* what the opaque scorers may answer
RegOutcomes ==
    {[raises |-> FALSE, value |-> R(v)] : v \in {-50, 120}}
        \cup {[raises |-> TRUE, value |-> R(0)]}
Probabilities == {Frac(3, 10), Frac(85, 100), Frac(1, 1), Frac(3, 2)}
ClfOutcomes ==
    {[raises |-> "", label |-> l, proba |-> p] :
        l \in {0, 1}, p \in {None} \cup {Val(q) : q \in Probabilities}}
        \cup {[raises |-> m, label |-> 0, proba |-> None] : m \in {"predict", "predict_proba"}}

\* direct calls of the module's functions
DirectWeights == {R(30), Frac(135, 2), R(70), R(110), R(200)}
DirectHeights == {R(100), R(150), R(170), R(175), R(250)}
DirectActivities == {None, Val("Unknown")} \cup {Val(a) : a \in DOMAIN multipliers}
DirectMasses == {R(0), R(100)}

\* texts of the crawled pages
MaxLen == 3
Alphabet == Digits \cup {".", " ", NBSP, "g"}
Texts == UNION {[1..n -> Alphabet] : n \in 0..MaxLen}
RawValues == {None} \cup {Val(t) : t \in Texts}
BaseValues == {None, Val(<<"5", " ", "g">>)}
FieldNames == {Fields[i] : i \in 1..Len(Fields)}
Pages == {[f \in FieldNames |-> IF f = g THEN v ELSE b] : g \in FieldNames, v \in RawValues, b \in BaseValues}
FoodNames == {Val("Apple")}

\* ------------------------------------------------------------------------
\* State

VARIABLES
    entry,          \* how the code is entered: "streamlit", "import" or "scrapy"
    pc,             \* position of the running script
    files,          \* the two model artifacts on disk
    cache,          \* st.cache_resource of load_models: None or Val(result)
    profile,        \* sidebar locals: weight, height, activity, goal, bmi
    models,         \* <<model_class, model_reg>> of this run
    form,           \* the form's values and submitted
    predicted_calories,
    total_mass,
    verdict,        \* <<prediction, prob_healthy>> returned by analyze_health
    calls,          \* scorer calls of this run, in order, each with its answer
    divisors,       \* denominators of the divisions evaluated in this run
    exc,            \* the exception that ended this run, "" for none
    ui,             \* what this run has rendered
    direct,         \* entry "import": the last direct call of a function
    item            \* entry "scrapy": what parse_food last did

vars == <<entry, pc, files, cache, profile, models, form, predicted_calories,
          total_mass, verdict, calls, divisors, exc, ui, direct, item>>

NoProfile == [weight |-> None, height |-> None, activity |-> None, goal |-> None, bmi |-> None]
NoForm == [submitted |-> FALSE, fat |-> R(0), carbs |-> R(0), protein |-> R(0), fiber |-> R(0), sugar |-> R(0), sat_fat |-> R(0), sodium |-> R(0), cholesterol |-> R(0), water |-> R(0)]
NoUi == [caption |-> "", note |-> FALSE, messages |-> {}, calories |-> None, verdict |-> None, conf_score |-> None, confidence |-> None, protein_tag |-> None]

\* The calls made once the module is imported, each still to be run
DirectCalls ==
    {[fn |-> "calculate_smart_protein_goal", args |-> <<w, h, a>>, done |-> FALSE, ret |-> None] :
        w \in DirectWeights, h \in DirectHeights, a \in DirectActivities}
    \cup
    {[fn |-> "analyze_health", args |-> <<c, R(120), m, R(0), s, p, f, R(0), R(0), R(0), R(0)>>, done |-> FALSE, ret |-> None] :
        c \in ClfOutcomes, m \in DirectMasses, s \in SugarInputs, p \in ProteinInputs, f \in FiberInputs}

\* The food pages Scrapy hands to parse_food, each still to be parsed
Responses == {[page |-> p, food_name |-> n, done |-> FALSE, out |-> None] : p \in Pages, n \in FoodNames}

Init ==
    /\ entry \in {"streamlit", "import", "scrapy"}
    /\ pc = "idle"
    /\ files \in (IF entry = "streamlit" THEN [class : ArtifactStates, reg : ArtifactStates] ELSE {[class |-> "ok", reg |-> "ok"]})
    /\ cache = None
    /\ profile = NoProfile
    /\ models = <<None, None>>
    /\ form = NoForm
    /\ predicted_calories = None
    /\ total_mass = None
    /\ verdict = <<None, None>>
    /\ calls = <<>>
    /\ divisors = {}
    /\ exc = ""
    /\ ui = NoUi
    /\ direct \in (IF entry = "import" THEN {Val(c) : c \in DirectCalls} ELSE {None})
    /\ item \in (IF entry = "scrapy" THEN {Val(r) : r \in Responses} ELSE {None})

\* ------------------------------------------------------------------------
\* food/app.py: main, one script run per user interaction

\* f"{conf_score:.1%}": tenths of a percent, rounded; a TypeError for None
format_pct1(x) == (2000 * x[1] + x[2]) \div (2 * x[2])

\* the probability of healthy shown for either label
conf_score_of_uninverted(prediction, prob_healthy) ==
    IF prediction = 1
    THEN <<"HEALTHY", prob_healthy>>
    ELSE <<"UNHEALTHY", IF prob_healthy # None THEN prob_healthy ELSE Val(R(0))>>

\* lines 220-227: <<verdict, conf_score>> from what analyze_health returned
conf_score_of(prediction, prob_healthy) ==
    IF prediction = 1
    THEN <<"HEALTHY", prob_healthy>>
    ELSE <<"UNHEALTHY", IF prob_healthy # None THEN Val(RSub(R(1), Get(prob_healthy))) ELSE Val(R(0))>>

\* lines 235-251: the protein tag
protein_tag_of(protein, daily_protein_goal) ==
    LET protein_percentage == RDiv(protein, daily_protein_goal)
    IN  IF RGE(protein_percentage, Frac(20, 100)) THEN "High Protein!"
        ELSE IF RGE(protein_percentage, Frac(10, 100)) THEN "Good Source"
        ELSE "Low Protein"

\* line 198: total mass in grams, sodium and cholesterol given in mg
total_mass_of(fat, carbs, protein, water, sodium, cholesterol) ==
    RAdd(RAdd(RAdd(RAdd(RAdd(fat, carbs), protein), water), RDiv(sodium, R(1000))), RDiv(cholesterol, R(1000)))

\* the zero-mass test left out
no_mass_never(mass) == FALSE

\* line 201: the zero-mass test of main
no_mass(mass) == mass = R(0)

\* lines 112-148: a run begins with the sidebar
Sidebar ==
    /\ entry = "streamlit"
    /\ pc \in {"idle", "done"}
    /\ \E weight \in Weights, height \in Heights, activity \in ActivityChoices :
        LET r == calculate_smart_protein_goal(weight, height, Val(activity))
            daily_protein_goal == r[1]
            bmi == r[2]
        IN  /\ profile' = [weight |-> Val(weight), height |-> Val(height), activity |-> Val(activity), goal |-> Val(daily_protein_goal), bmi |-> Val(bmi)]
            /\ ui' = [NoUi EXCEPT !.caption = bmi_caption(bmi),
                                  !.note = (bmi_caption(bmi) = "Obese - Weight Adjusted")]
    /\ pc' = "load"
    /\ models' = <<None, None>>
    /\ form' = NoForm
    /\ predicted_calories' = None
    /\ total_mass' = None
    /\ verdict' = <<None, None>>
    /\ calls' = <<>>
    /\ divisors' = {}
    /\ exc' = ""
    /\ UNCHANGED <<entry, files, cache, direct, item>>

\* lines 155-158: load_models() through st.cache_resource, then the gate
LoadModels ==
    /\ pc = "load"
    /\ LET fresh == load_models(files.class, files.reg)
           got == IF cache = None THEN fresh ELSE Get(cache)
           failed == cache = None /\ files.class # "missing" /\ files.reg # "missing" /\ fresh[1] = None
       IN  /\ cache' = Val(got)
           /\ models' = got
           /\ IF got[1] = None
              THEN /\ ui' = [ui EXCEPT !.messages = @ \cup {"Model files missing! Please check your folder."} \cup (IF failed THEN {"Error loading models"} ELSE {})]
                   /\ pc' = "done"
              ELSE /\ ui' = ui
                   /\ pc' = "form"
    /\ UNCHANGED <<entry, files, profile, form, predicted_calories, total_mass, verdict, calls, divisors, exc, direct, item>>

\* lines 161-192: the form; a run without a submission ends here
Form ==
    /\ pc = "form"
    /\ \E fat \in FatInputs, carbs \in CarbInputs, protein \in ProteinInputs, fiber \in FiberInputs, sugar \in SugarInputs, sat_fat \in SatFatInputs, sodium \in SodiumInputs, cholesterol \in CholesterolInputs, water \in WaterInputs, submitted \in BOOLEAN :
        form' = [submitted |-> submitted, fat |-> fat, carbs |-> carbs, protein |-> protein, fiber |-> fiber, sugar |-> sugar, sat_fat |-> sat_fat, sodium |-> sodium, cholesterol |-> cholesterol, water |-> water]
    /\ pc' = IF form'.submitted THEN "calories" ELSE "done"
    /\ UNCHANGED <<entry, files, cache, profile, models, predicted_calories, total_mass, verdict, calls, divisors, exc, ui, direct, item>>

\* lines 197-202: calories, total mass, the zero-mass notice
Calories ==
    /\ pc = "calories"
    /\ \E reg_out \in RegOutcomes :
        LET r == predict_calories(reg_out, form.fat, form.carbs, form.protein, form.fiber)
            mass == total_mass_of(form.fat, form.carbs, form.protein, form.water, form.sodium, form.cholesterol)
        IN  /\ calls' = calls \o <<[call |-> r.calls[1], answer |-> reg_out]>>
            /\ exc' = r.exc
            /\ predicted_calories' = r.ret
            /\ IF r.exc # ""
               THEN /\ pc' = "done"
                    /\ UNCHANGED <<total_mass, divisors, ui>>
               ELSE /\ total_mass' = Val(mass)
                    /\ divisors' = divisors \cup {R(1000)}
                    /\ IF no_mass(mass)
                       THEN /\ ui' = [ui EXCEPT !.messages = @ \cup {"Please enter some nutrient values before analyzing."}]
                            /\ pc' = "done"
                       ELSE /\ ui' = ui
                            /\ pc' = "analyze"
    /\ UNCHANGED <<entry, files, cache, profile, models, form, verdict, direct, item>>

\* lines 204-251: analyze_health and the rendering of its result
Analyze ==
    /\ pc = "analyze"
    /\ \E clf_out \in ClfOutcomes :
        LET r == analyze_health(clf_out, Get(predicted_calories), Get(total_mass), form.fat, form.sugar, form.protein, form.fiber, form.sodium, form.sat_fat, form.cholesterol, form.water)
            prediction == r.ret[1]
            prob_healthy == r.ret[2]
            shown == conf_score_of(Get(prediction), prob_healthy)
        IN  /\ calls' = calls \o [i \in 1..Len(r.calls) |-> [call |-> r.calls[i], answer |-> clf_out]]
            /\ divisors' = divisors \cup r.divisors
            /\ verdict' = r.ret
            /\ IF r.exc # ""
               THEN /\ exc' = r.exc
                    /\ ui' = ui
               ELSE IF prediction = None
               THEN /\ exc' = ""
                    /\ ui' = [ui EXCEPT !.messages = @ \cup {"Error calculating health score."}]
               ELSE IF shown[2] = None
               THEN /\ exc' = "TypeError"
                    /\ ui' = [ui EXCEPT !.calories = predicted_calories,
                                        !.verdict = Val(shown[1])]
               ELSE /\ exc' = ""
                    /\ ui' = [ui EXCEPT !.calories = predicted_calories,
                                        !.verdict = Val(shown[1]),
                                        !.conf_score = shown[2],
                                        !.confidence = Val(format_pct1(Get(shown[2]))),
                                        !.protein_tag = Val(protein_tag_of(form.protein, Get(profile.goal)))]
    /\ pc' = "done"
    /\ UNCHANGED <<entry, files, cache, profile, models, form, predicted_calories, total_mass, direct, item>>

NextApp == Sidebar \/ LoadModels \/ Form \/ Calories \/ Analyze

\* ------------------------------------------------------------------------
\* The module imported and its functions called directly

CallGoal ==
    /\ entry = "import"
    /\ direct # None
    /\ Get(direct).fn = "calculate_smart_protein_goal"
    /\ ~Get(direct).done
    /\ LET a == Get(direct).args
       IN  direct' = Val([Get(direct) EXCEPT !.done = TRUE, !.ret = Val(calculate_smart_protein_goal(a[1], a[2], a[3]))])
    /\ UNCHANGED <<entry, pc, files, cache, profile, models, form, predicted_calories, total_mass, verdict, calls, divisors, exc, ui, item>>

CallAnalyze ==
    /\ entry = "import"
    /\ direct # None
    /\ Get(direct).fn = "analyze_health"
    /\ ~Get(direct).done
    /\ LET a == Get(direct).args
       IN  direct' = Val([Get(direct) EXCEPT !.done = TRUE, !.ret = Val(analyze_health(a[1], a[2], a[3], a[4], a[5], a[6], a[7], a[8], a[9], a[10], a[11]))])
    /\ UNCHANGED <<entry, pc, files, cache, profile, models, form, predicted_calories, total_mass, verdict, calls, divisors, exc, ui, item>>

NextImport == CallGoal \/ CallAnalyze

\* ------------------------------------------------------------------------
\* The spider: Scrapy calls parse_food with a food page

ParseFood ==
    /\ entry = "scrapy"
    /\ item # None
    /\ ~Get(item).done
    /\ item' = Val([Get(item) EXCEPT !.done = TRUE, !.out = Val(parse_food(Get(item).page, Get(item).food_name))])
    /\ UNCHANGED <<entry, pc, files, cache, profile, models, form, predicted_calories, total_mass, verdict, calls, divisors, exc, ui, direct>>

NextCrawl == ParseFood

Next == NextApp \/ NextImport \/ NextCrawl

Spec == Init /\ [][Next]_vars

\* ========================================================================
\* Properties

\* the classifier's answer in a run of main that reached both of its calls
ClassifierAnswered ==
    entry = "streamlit" /\ pc = "done" /\ Len(calls) = 3 /\ calls[3].answer.raises = ""

\* protein/total_mass > 0.15 and sugar/total_mass < 0.02, by cross-multiplication
HighProteinLowSugar(protein, sugar, mass) ==
    /\ 100 * protein[1] * mass[2] > 15 * mass[1] * protein[2]
    /\ 100 * sugar[1] * mass[2] < 2 * mass[1] * sugar[2]

OverrideExpected(raw, protein, sugar, mass) ==
    IF raw.label = 0 /\ HighProteinLowSugar(protein, sugar, mass)
    THEN <<Val(1), Val(<<17, 20>>)>>
    ELSE <<Val(raw.label), raw.proba>>

DirectDone(fn) == entry = "import" /\ direct # None /\ Get(direct).fn = fn /\ Get(direct).done

\* C1: for every input with total mass > 0, analyze_health returns (1, 0.85)
\* when the classifier's raw label is 0 and protein/total_mass > 0.15 and
\* sugar/total_mass < 0.02, and the classifier's raw label and probability
\* otherwise; in main and in a direct call.
C1_OverrideRule ==
    /\ ClassifierAnswered =>
         /\ Get(total_mass)[1] > 0
         /\ verdict = OverrideExpected(calls[3].answer, form.protein, form.sugar, Get(total_mass))
    /\ (DirectDone("analyze_health") /\ Get(direct).args[3][1] > 0 /\ Get(direct).args[1].raises = "") =>
         LET a == Get(direct).args
         IN  Get(Get(direct).ret).ret = OverrideExpected(a[1], a[6], a[5], a[3])

\* C1 witness: a run in which the rule replaced an unhealthy answer of 0.3
C1_Witness ==
    /\ ClassifierAnswered
    /\ calls[3].answer.label = 0
    /\ calls[3].answer.proba = Val(<<3, 10>>)
    /\ verdict = <<Val(1), Val(<<17, 20>>)>>

AllZeroMass == form.fat = R(0) /\ form.carbs = R(0) /\ form.protein = R(0) /\ form.water = R(0) /\ form.sodium = R(0) /\ form.cholesterol = R(0)

ZeroMassNotice == "Please enter some nutrient values before analyzing."

ClassifierCalls == {i \in 1..Len(calls) : calls[i].call.svc = "classifier"}

\* C2: a submission of zero total mass renders no verdict, never invokes the
\* classifier, evaluates no division by the total mass and, the regressor
\* having answered, ends in the "please enter nutrient values" notice;
\* analyze_health called with total_mass = 0 returns (None, None) without
\* a call or a division.
C2_ZeroMass ==
    /\ (entry = "streamlit" /\ pc = "done" /\ form.submitted /\ AllZeroMass) =>
         /\ ui.verdict = None
         /\ ui.confidence = None
         /\ ClassifierCalls = {}
         /\ R(0) \notin divisors
         /\ verdict = <<None, None>>
         /\ exc = "" => (total_mass = Val(R(0)) /\ ZeroMassNotice \in ui.messages /\ ui.messages = {ZeroMassNotice})
    /\ (DirectDone("analyze_health") /\ Get(direct).args[3] = R(0)) =>
         /\ Get(Get(direct).ret).ret = <<None, None>>
         /\ Get(Get(direct).ret).calls = <<>>
         /\ Get(Get(direct).ret).divisors = {}
         /\ Get(Get(direct).ret).exc = ""

\* C2 witness: a submitted form of zero mass that ended in the notice
C2_Witness ==
    /\ entry = "streamlit" /\ pc = "done" /\ form.submitted /\ AllZeroMass
    /\ exc = ""
    /\ ZeroMassNotice \in ui.messages
    /\ Len(calls) = 1

ArtifactUnusable == files.class # "ok" \/ files.reg # "ok"

ModelsMissingError == "Model files missing! Please check your folder."

\* C3: load_models yields both models or none; with an artifact missing or
\* failing to load it yields none, no scorer is ever invoked, no verdict is
\* rendered, and a finished run shows the models-unavailable diagnostic.
C3_NoPartialModels ==
    /\ cache # None => ((Get(cache)[1] = None) <=> (Get(cache)[2] = None))
    /\ (models[1] = None) <=> (models[2] = None)
    /\ (entry = "streamlit" /\ ArtifactUnusable) =>
         /\ cache # None => Get(cache) = <<None, None>>
         /\ models = <<None, None>>
         /\ calls = <<>>
         /\ ui.verdict = None
         /\ pc \in {"idle", "load", "done"}
         /\ pc = "done" => ModelsMissingError \in ui.messages

\* C3 witness: a run that ended in the diagnostic, the regressor artifact corrupt
C3_Witness ==
    /\ entry = "streamlit" /\ pc = "done"
    /\ files = [class |-> "ok", reg |-> "corrupt"]
    /\ cache = Val(<<None, None>>)
    /\ ModelsMissingError \in ui.messages

InUnit(x) == x[1] >= 0 /\ x[1] <= x[2]

\* C4: a rendered confidence is the probability of the declared label: the
\* returned probability of healthy for HEALTHY, one minus it for UNHEALTHY;
\* it lies in [0,1] whenever the classifier's probability does; the
\* formatted figure is that value in tenths of a percent.
C4_ConfidenceOfLabel ==
    (ClassifierAnswered /\ ui.conf_score # None /\ verdict[2] # None) =>
        LET p == Get(verdict[2])
            c == Get(ui.conf_score)
            raw == calls[3].answer
        IN  /\ ui.verdict = (IF verdict[1] = Val(1) THEN Val("HEALTHY") ELSE Val("UNHEALTHY"))
            /\ verdict[1] = Val(1) => c = p
            /\ verdict[1] # Val(1) => (c[2] = p[2] /\ c[1] + p[1] = p[2])
            /\ (raw.proba # None /\ InUnit(Get(raw.proba))) => InUnit(c)
            /\ InUnit(c) => (ui.confidence # None /\ Get(ui.confidence) * c[2] = 1000 * c[1])

\* C4 witness: UNHEALTHY declared with P(healthy) = 0.3, confidence 70.0%
C4_Witness ==
    /\ ClassifierAnswered
    /\ verdict = <<Val(0), Val(<<3, 10>>)>>
    /\ ui.verdict = Val("UNHEALTHY")
    /\ ui.conf_score = Val(<<7, 10>>)
    /\ ui.confidence = Val(700)

RegressorAnswered == entry = "streamlit" /\ Len(calls) >= 1 /\ ~calls[1].answer.raises

\* C5: predict_calories returns max(0, scorer output): never negative, and
\* the scorer's output itself whenever that is >= 0.
C5_CaloriesClamped ==
    RegressorAnswered =>
        LET out == calls[1].answer.value
            cal == Get(predicted_calories)
        IN  /\ cal[1] >= 0
            /\ out[1] >= 0 => cal = out
            /\ out[1] < 0 => cal = R(0)
            /\ form.fat[1] >= 0 /\ form.carbs[1] >= 0 /\ form.protein[1] >= 0 /\ form.fiber[1] >= 0

\* C5 witness: the scorer answered -50 and 0 kcal were estimated
C5_Witness ==
    /\ RegressorAnswered
    /\ calls[1].answer.value = R(-50)
    /\ predicted_calories = Val(R(0))

\* tenths of the multiplier the table gives each activity level
TableTenths(activity_level) ==
    IF activity_level = Val(Sedentary) THEN 8
    ELSE IF activity_level = Val(LightlyActive) THEN 12
    ELSE IF activity_level = Val(ModeratelyActive) THEN 15
    ELSE IF activity_level = Val(VeryActive) THEN 17
    ELSE IF activity_level = Val(Athlete) THEN 20
    ELSE 12

C6_ObeseBandIsAdjusted ==
    (entry = "streamlit" /\ profile.bmi # None) =>
        LET wn == Get(profile.weight)[1]
            wd == Get(profile.weight)[2]
            hn == Get(profile.height)[1]
            hd == Get(profile.height)[2]
            m == TableTenths(profile.activity)
            goal == Get(profile.goal)
            obese == wn * 10000 * hd * hd >= 30 * wd * hn * hn
        IN  /\ obese <=> (ui.caption = "Obese - Weight Adjusted" /\ ui.note)
            /\ obese => goal = Frac(m * (400 * wn * hd * hd + 3 * wd * hn * hn), 16000 * wd * hd * hd)
            /\ ~obese => goal = Frac(m * wn, 10 * wd)

\* C8 (as claimed): when the classifier gives a label and no probability, the
\* confidence shown is 0.0% for either final label and the run ends without
\* an error.
C8_AbsentProbabilityShowsZero ==
    (ClassifierAnswered /\ calls[3].answer.proba = None) =>
        /\ exc = ""
        /\ ui.confidence = Val(0)

\* C9 (as claimed): clean_value gives every text a number or None and never
\* raises, so parse_food yields a record with all of its fields for every page.
C9_CleanValueNeverRaises ==
    (entry = "scrapy" /\ item # None /\ Get(item).done) =>
        LET out == Get(Get(item).out)
        IN  /\ out.exc = ""
            /\ out.yielded # None
            /\ Len(Get(out.yielded).values) = Len(Fields)

C10_Order ==
    entry = "streamlit" =>
        /\ Len(calls) <= 3
        /\ \A i \in 1..Len(calls) : (calls[i].call.svc = "regressor") <=> (i = 1)
        /\ (pc = "analyze" \/ (pc = "done" /\ form.submitted)) => Len(calls) >= 1
        /\ Len(calls) >= 2 =>
             /\ total_mass # None /\ Get(total_mass)[1] > 0
             /\ predicted_calories # None
             /\ calls[2].call.method = "predict"
             /\ calls[2].call.data.Calorie_Density = Frac(Get(predicted_calories)[1] * Get(total_mass)[2], Get(predicted_calories)[2] * Get(total_mass)[1])
        /\ Len(calls) = 3 =>
             /\ calls[3].call.method = "predict_proba"
             /\ calls[3].call.data = calls[2].call.data
        /\ (pc = "done" /\ form.submitted /\ exc \in {"", "TypeError"} /\ ~AllZeroMass) => Len(calls) = 3
        /\ (pc = "done" /\ form.submitted /\ AllZeroMass) => Len(calls) = 1

C10_Step ==
    /\ pc' = "load" => pc \in {"idle", "done"}
    /\ calls' # calls =>
         IF pc \in {"idle", "done"}
         THEN calls' = <<>>
         ELSE Len(calls') > Len(calls) /\ SubSeq(calls', 1, Len(calls)) = calls

\* C10: in a submission the regressor is invoked exactly once and first; the
\* classifier only when total mass > 0, once for the label and then once for
\* the probabilities, on the features built from this submission's calorie
\* estimate (both calls whenever no scorer raises); calls made are never
\* repeated or withdrawn, and a run begins only once the previous one ended.
C10_StagesInOrder == []C10_Order /\ [][C10_Step]_vars

\* C10 witness: a finished submission with the three calls made
C10_Witness ==
    /\ entry = "streamlit" /\ pc = "done" /\ form.submitted
    /\ Len(calls) = 3
    /\ calls[1].call.svc = "regressor"
    /\ calls[3].call.method = "predict_proba"
    /\ ui.verdict # None

====
